---- MODULE Spec2Model ----
(***************************************************************************)
(* FxEuropeanBarrierOption::build (ored/portfolio/fxeuropeanbarrieroption  *)
(* .cpp): static replication of a European single-barrier FX option by a   *)
(* composite of vanilla options and cash-or-nothing digitals.              *)
(*                                                                         *)
(* The trade's data members are the record `trade`; the engine factory is  *)
(* the set `factory` of the class names it has a builder for.  build is    *)
(* followed statement block by statement block (pc), so that the order of  *)
(* its checks, of the engine attachment, of the composition and of the     *)
(* writes to the trade's outputs can be observed.  An exception (QL_REQUIRE*)
(* / QL_FAIL) ends build in pc = "failed" with the message in err and the  *)
(* locals destroyed.                                                       *)
(*                                                                         *)
(* Reals are modelled by integers; the amounts are drawn so that           *)
(* soldAmount / boughtAmount is exact.                                     *)
(***************************************************************************)
EXTENDS Integers, Sequences, FiniteSets, TLC

VARIABLES trade, factory, pc, err, leaves, composite, premiums, outputs

vars == <<trade, factory, pc, err, leaves, composite, premiums, outputs>>

(***************************************************************************)
(* Bounds of the input grids.                                              *)
(***************************************************************************)
MaxExerciseDates == 2
MaxBarrierLevels == 2
MaxTradeActions == 1
MaxPremiums == 1
MaxGrid == 3
MaxRebate == 1

Abs(x) == IF x < 0 THEN -x ELSE x
Max(a, b) == IF a < b THEN b ELSE a

OptionTypes == {"Call", "Put"}
KnownBarrierTypes == {"UpIn", "UpOut", "DownIn", "DownOut"}
\* "Other" stands for a Barrier::Type value outside the four the code names.
BarrierTypes == KnownBarrierTypes \cup {"Other"}
BuilderNames == {"FxOption", "FxDigitalOption"}
LeafNames == {"digital", "vanillaK", "vanillaB", "rebateInstrument"}

\* The premium entries a trade may carry: paid before expiry, paid after
\* expiry, and one whose currency does not parse.
PremiumEntries ==
    { [amount |-> 2, payDate |-> 1, currency |-> "USD"],
      [amount |-> 3, payDate |-> 4, currency |-> "USD"],
      [amount |-> 2, payDate |-> 4, currency |-> "???"] }

RECURSIVE SeqsUpTo(_, _)
SeqsUpTo(S, n) ==
    IF n = 0 THEN {<<>>}
    ELSE LET shorter == SeqsUpTo(S, n - 1)
         IN  shorter \cup { Append(s, x) : s \in { q \in shorter : Len(q) = n - 1 }, x \in S }

(***************************************************************************)
(* The trade descriptions of a grid.  The exercise dates are 2, 3, ...;    *)
(* the barrier levels are B, B+1, ...; the strike of the trade is          *)
(* soldAmount / boughtAmount = K.                                          *)
(***************************************************************************)
Trades(styles, nDates, nLevels, bStyles, nActions, types, kinds, Bs, Ks, boughts, rebates, longShorts, premiumSeqs) ==
    { [ optionStyle    |-> st,
        exerciseDates  |-> [i \in 1..nd |-> 1 + i],
        callPut        |-> ty,
        longShort      |-> ls,
        premiumData    |-> pr,
        barrierType    |-> kd,
        barrierLevels  |-> [i \in 1..nl |-> B + i - 1],
        rebate         |-> R,
        barrierStyle   |-> bs,
        tradeActions   |-> [i \in 1..na |-> "Break"],
        boughtCurrency |-> "EUR",
        soldCurrency   |-> "USD",
        boughtAmount   |-> ba,
        soldAmount     |-> K * ba ] :
      st \in styles, nd \in nDates, nl \in nLevels, bs \in bStyles, na \in nActions,
      ty \in types, kd \in kinds, B \in Bs, K \in Ks, ba \in boughts, R \in rebates,
      ls \in longShorts, pr \in premiumSeqs }

(***************************************************************************)
(* build, lines 42-53: the precondition checks and the rebate check, in    *)
(* the order of the code.  The result is the message of the first          *)
(* QL_REQUIRE that fails, "" when all pass.                                *)
(***************************************************************************)
PreconditionError_atLeastOneDate(t) ==
    IF t.optionStyle # "European" THEN "Option Style unknown"
    ELSE IF ~(Len(t.exerciseDates) >= 1) THEN "Invalid number of excercise dates"
    ELSE IF Len(t.barrierLevels) # 1 THEN "Invalid number of barrier levels"
    ELSE IF ~(t.barrierStyle = "" \/ t.barrierStyle = "European")
         THEN "Only european barrier style suppported"
    ELSE IF Len(t.tradeActions) # 0 THEN "TradeActions not supported for FxEuropeanBarrierOption"
    ELSE IF ~(t.rebate >= 0) THEN "Rebate must be non-negative"
    ELSE ""

PreconditionError(t) ==
    IF t.optionStyle # "European" THEN "Option Style unknown"
    ELSE IF Len(t.exerciseDates) # 1 THEN "Invalid number of excercise dates"
    ELSE IF Len(t.barrierLevels) # 1 THEN "Invalid number of barrier levels"
    ELSE IF ~(t.barrierStyle = "" \/ t.barrierStyle = "European")
         THEN "Only european barrier style suppported"
    ELSE IF Len(t.tradeActions) # 0 THEN "TradeActions not supported for FxEuropeanBarrierOption"
    ELSE IF ~(t.rebate >= 0) THEN "Rebate must be non-negative"
    ELSE ""

\* lines 51, 121, 125: the locals level, strike and expiryDate.
Level(t) == t.barrierLevels[1]
Strike(t) == t.soldAmount \div t.boughtAmount
ExpiryDate(t) == Head(t.exerciseDates)

(***************************************************************************)
(* Payoffs, lines 130-148.  A payoff is [class, type, strike, cash]; a     *)
(* plain vanilla payoff has cash 0; NullPayoff is the empty shared_ptr.    *)
(***************************************************************************)
PlainVanillaPayoff(type, strike) ==
    [class |-> "PlainVanilla", type |-> type, strike |-> strike, cash |-> 0]
CashOrNothingPayoff(type, strike, cash) ==
    [class |-> "CashOrNothing", type |-> type, strike |-> strike, cash |-> cash]
NullPayoff == [class |-> "null", type |-> "null", strike |-> 0, cash |-> 0]

PayoffVanillaK(t) == PlainVanillaPayoff(t.callPut, Strike(t))
PayoffVanillaB(t) == PlainVanillaPayoff(t.callPut, Level(t))

PayoffDigital_noFabs(t) == CashOrNothingPayoff(t.callPut, Level(t), Level(t) - Strike(t))

PayoffDigital(t) == CashOrNothingPayoff(t.callPut, Level(t), Abs(Level(t) - Strike(t)))

RebatePayoff_swapped(t) ==
    IF t.barrierType = "UpIn" \/ t.barrierType = "DownOut"
    THEN CashOrNothingPayoff("Call", Level(t), t.rebate)
    ELSE IF t.barrierType = "UpOut" \/ t.barrierType = "DownIn"
    THEN CashOrNothingPayoff("Put", Level(t), t.rebate)
    ELSE NullPayoff

RebatePayoff(t) ==
    IF t.barrierType = "UpIn" \/ t.barrierType = "DownOut"
    THEN CashOrNothingPayoff("Put", Level(t), t.rebate)
    ELSE IF t.barrierType = "UpOut" \/ t.barrierType = "DownIn"
    THEN CashOrNothingPayoff("Call", Level(t), t.rebate)
    ELSE NullPayoff

\* An instrument without a pricing engine (lines 137-139, 149).
NoEngine == [builder |-> "none", ccy1 |-> "", ccy2 |-> "", dated |-> FALSE, expiry |-> 0]
VanillaOption(payoff) == [payoff |-> payoff, engine |-> NoEngine, nSet |-> 0]

NewLeaves(t) ==
    [n \in LeafNames |->
        CASE n = "digital"          -> VanillaOption(PayoffDigital(t))
          [] n = "vanillaK"         -> VanillaOption(PayoffVanillaK(t))
          [] n = "vanillaB"         -> VanillaOption(PayoffVanillaB(t))
          [] n = "rebateInstrument" -> VanillaOption(RebatePayoff(t))]

\* The locals before they are constructed and after they are destroyed.
NoLeaves == [n \in LeafNames |-> VanillaOption(NullPayoff)]

(***************************************************************************)
(* Engine attachment, lines 151-165.  The factory's builder(name) is null  *)
(* when name is not registered.  The FxOption builder's engine is keyed by *)
(* (bought, sold, expiry), the FxDigitalOption builder's by (bought, sold).*)
(***************************************************************************)
BuilderError_digitalOnly(f) ==
    IF "FxDigitalOption" \notin f THEN "No builder found for FxDigitalOption" ELSE ""

BuilderError(f) ==
    IF "FxOption" \notin f THEN "No builder found for FxOption"
    ELSE IF "FxDigitalOption" \notin f THEN "No builder found for FxDigitalOption"
    ELSE ""

FxOptionEngine(t) ==
    [builder |-> "FxOption", ccy1 |-> t.boughtCurrency, ccy2 |-> t.soldCurrency,
     dated |-> TRUE, expiry |-> ExpiryDate(t)]
FxDigitalOptionEngine(t) ==
    [builder |-> "FxDigitalOption", ccy1 |-> t.boughtCurrency, ccy2 |-> t.soldCurrency,
     dated |-> FALSE, expiry |-> 0]

setPricingEngine(inst, e) == [inst EXCEPT !.engine = e, !.nSet = @ + 1]

EnginesSet_vanillaKTwice(lv, t) ==
    [n \in LeafNames |->
        CASE n = "digital"          -> setPricingEngine(lv[n], FxDigitalOptionEngine(t))
          [] n = "vanillaK"         -> setPricingEngine(setPricingEngine(lv[n], FxOptionEngine(t)),
                                                        FxOptionEngine(t))
          [] n = "vanillaB"         -> lv[n]
          [] n = "rebateInstrument" -> setPricingEngine(lv[n], FxDigitalOptionEngine(t))]

EnginesSet(lv, t) ==
    [n \in LeafNames |->
        CASE n = "digital"          -> setPricingEngine(lv[n], FxDigitalOptionEngine(t))
          [] n = "vanillaK"         -> setPricingEngine(lv[n], FxOptionEngine(t))
          [] n = "vanillaB"         -> setPricingEngine(lv[n], FxOptionEngine(t))
          [] n = "rebateInstrument" -> setPricingEngine(lv[n], FxDigitalOptionEngine(t))]

(***************************************************************************)
(* The replication table, lines 169-207: the (leaf, multiplier) pairs      *)
(* added after the rebate leaf, or the QL_FAIL of the else branches.       *)
(***************************************************************************)
Add(n, m) == [name |-> n, mult |-> m]
Selected(adds) == [fail |-> FALSE, adds |-> adds]
UnknownBarrier == [fail |-> TRUE, adds |-> <<>>]

\* The branches of lines 169-207, `above` being the outcome of level > strike.
TableBranch(type, barrierType, above) ==
    IF type = "Call" THEN
        IF barrierType = "UpIn" \/ barrierType = "DownOut" THEN
            IF above
            THEN Selected(<<Add("vanillaB", 1), Add("digital", 1)>>)
            ELSE Selected(<<Add("vanillaK", 1)>>)
        ELSE IF barrierType = "UpOut" \/ barrierType = "DownIn" THEN
            IF above
            THEN Selected(<<Add("vanillaK", 1), Add("vanillaB", -1), Add("digital", -1)>>)
            ELSE Selected(<<>>)
        ELSE UnknownBarrier
    ELSE IF type = "Put" THEN
        IF barrierType = "UpIn" \/ barrierType = "DownOut" THEN
            IF above
            THEN Selected(<<>>)
            ELSE Selected(<<Add("vanillaK", 1), Add("vanillaB", -1), Add("digital", -1)>>)
        ELSE IF barrierType = "UpOut" \/ barrierType = "DownIn" THEN
            IF above
            THEN Selected(<<Add("vanillaK", 1)>>)
            ELSE Selected(<<Add("vanillaB", 1), Add("digital", 1)>>)
        ELSE UnknownBarrier
    ELSE Selected(<<>>)

SelectedLeaves_tieAbove(type, barrierType, level, strike) ==
    TableBranch(type, barrierType, level >= strike)

SelectedLeaves_allLong(type, barrierType, level, strike) ==
    LET r == TableBranch(type, barrierType, level > strike)
    IN  [r EXCEPT !.adds = [i \in 1..Len(r.adds) |-> Add(r.adds[i].name, 1)]]

SelectedLeaves_noFail(type, barrierType, level, strike) ==
    Selected(TableBranch(type, barrierType, level > strike).adds)

\* The comparison of lines 171, 178, 190, 198 is the strict level > strike.
SelectedLeaves(type, barrierType, level, strike) ==
    TableBranch(type, barrierType, level > strike)

\* CompositeInstrument::add(instrument, multiplier = 1): the composite keeps the
\* shared instrument and its multiplier, in the order of the calls.
add(comp, lv, a) == Append(comp, [name |-> a.name, mult |-> a.mult, inst |-> lv[a.name]])

RECURSIVE addAll(_, _, _)
addAll(comp, lv, adds) ==
    IF adds = <<>> THEN comp ELSE addAll(add(comp, lv, Head(adds)), lv, Tail(adds))

Composed_rebateLast(lv, t) ==
    add(addAll(<<>>, lv, SelectedLeaves(t.callPut, t.barrierType, Level(t), Strike(t)).adds),
        lv, Add("rebateInstrument", 1))

\* lines 167-207 when no branch fails.
Composed(lv, t) ==
    addAll(add(<<>>, lv, Add("rebateInstrument", 1)), lv,
           SelectedLeaves(t.callPut, t.barrierType, Level(t), Strike(t)).adds)

(***************************************************************************)
(* Position and premiums, lines 209-218.                                   *)
(***************************************************************************)
BsInd_alwaysLong(t) == 1

BsInd(t) == IF t.longShort = "Long" THEN 1 ELSE -1
Mult(t) == t.boughtAmount * BsInd(t)
PremiumSign(t) == -BsInd(t)

\* Trade::addPremiums(additionalInstruments, additionalMultipliers, mult,
\* premiumData, sign, ccy, ...): one fee payment per premium entry, weighted by
\* sign; the result is the latest pay date (the null date 0 without premiums).
\* It throws when an entry's currency does not parse.
RECURSIVE LatestDate(_)
LatestDate(ps) == IF ps = <<>> THEN 0 ELSE Max(Head(ps).payDate, LatestDate(Tail(ps)))

addPremiums(tradeMult, premiumData, sign) ==
    IF \E i \in 1..Len(premiumData) : premiumData[i].currency = "???"
    THEN [ok |-> FALSE, mult |-> tradeMult, sign |-> sign, instruments |-> <<>>,
          multipliers |-> <<>>, lastPremiumDate |-> 0]
    ELSE [ok |-> TRUE, mult |-> tradeMult, sign |-> sign,
          instruments |-> [i \in 1..Len(premiumData) |-> premiumData[i].amount],
          multipliers |-> [i \in 1..Len(premiumData) |-> sign],
          lastPremiumDate |-> LatestDate(premiumData)]

NoPremiums ==
    [ok |-> FALSE, mult |-> 0, sign |-> 0, instruments |-> <<>>, multipliers |-> <<>>,
     lastPremiumDate |-> 0]

(***************************************************************************)
(* The trade's outputs, lines 220-231, and their values after construction.*)
(***************************************************************************)
NoInstrument ==
    [set |-> FALSE, qlInstrument |-> <<>>, mult |-> 0, additionalInstruments |-> <<>>,
     additionalMultipliers |-> <<>>]

VanillaInstrument(comp, m, addInst, addMult) ==
    [set |-> TRUE, qlInstrument |-> comp, mult |-> m, additionalInstruments |-> addInst,
     additionalMultipliers |-> addMult]

NoAdditionalData ==
    [keys |-> {}, boughtCurrency |-> "", boughtAmount |-> 0, soldCurrency |-> "", soldAmount |-> 0]

Unbuilt ==
    [instrument |-> NoInstrument, npvCurrency |-> "", notional |-> 0, notionalCurrency |-> "",
     maturity |-> 0, additionalData |-> NoAdditionalData]

Built(t, comp, pr) ==
    [instrument       |-> VanillaInstrument(comp, pr.mult, pr.instruments, pr.multipliers),
     npvCurrency      |-> t.soldCurrency,
     notional         |-> t.soldAmount,
     notionalCurrency |-> t.soldCurrency,
     maturity         |-> Max(pr.lastPremiumDate, ExpiryDate(t)),
     additionalData   |->
        [keys |-> {"boughtCurrency", "boughtAmount", "soldCurrency", "soldAmount"},
         boughtCurrency |-> t.boughtCurrency, boughtAmount |-> t.boughtAmount,
         soldCurrency |-> t.soldCurrency, soldAmount |-> t.soldAmount]]

(***************************************************************************)
(* build, block by block.                                                  *)
(***************************************************************************)
\* A QL_REQUIRE / QL_FAIL: the exception leaves build, the locals are gone.
Throw(msg) ==
    /\ pc' = "failed"
    /\ err' = msg
    /\ leaves' = NoLeaves
    /\ composite' = <<>>
    /\ premiums' = NoPremiums

\* lines 42-53
CheckPreconditions ==
    /\ pc = "start"
    /\ IF PreconditionError(trade) # ""
       THEN Throw(PreconditionError(trade))
       ELSE /\ pc' = "checked"
            /\ UNCHANGED <<err, leaves, composite, premiums>>
    /\ UNCHANGED <<trade, factory, outputs>>

\* lines 121-149
BuildPayoffs ==
    /\ pc = "checked"
    /\ pc' = "payoffs"
    /\ leaves' = NewLeaves(trade)
    /\ UNCHANGED <<trade, factory, err, composite, premiums, outputs>>

\* lines 151-165
SetPricingEngines ==
    /\ pc = "payoffs"
    /\ IF BuilderError(factory) # ""
       THEN Throw(BuilderError(factory))
       ELSE /\ pc' = "engines"
            /\ leaves' = EnginesSet(leaves, trade)
            /\ UNCHANGED <<err, composite, premiums>>
    /\ UNCHANGED <<trade, factory, outputs>>

\* lines 167-207
Compose ==
    /\ pc = "engines"
    /\ IF SelectedLeaves(trade.callPut, trade.barrierType, Level(trade), Strike(trade)).fail
       THEN Throw("Unknown Barrier Type")
       ELSE /\ pc' = "composed"
            /\ composite' = Composed(leaves, trade)
            /\ UNCHANGED <<err, leaves, premiums>>
    /\ UNCHANGED <<trade, factory, outputs>>

AddPremiums_writesFirst ==
    /\ pc = "composed"
    /\ outputs' = [outputs EXCEPT !.npvCurrency = trade.soldCurrency,
                                  !.notional = trade.soldAmount,
                                  !.notionalCurrency = trade.soldCurrency]
    /\ LET r == addPremiums(Mult(trade), trade.premiumData, PremiumSign(trade))
       IN  IF ~r.ok
           THEN Throw("addPremiums failed")
           ELSE /\ pc' = "premiums"
                /\ premiums' = r
                /\ UNCHANGED <<err, leaves, composite>>
    /\ UNCHANGED <<trade, factory>>

\* lines 209-218
AddPremiums ==
    /\ pc = "composed"
    /\ LET r == addPremiums(Mult(trade), trade.premiumData, PremiumSign(trade))
       IN  IF ~r.ok
           THEN Throw("addPremiums failed")
           ELSE /\ pc' = "premiums"
                /\ premiums' = r
                /\ UNCHANGED <<err, leaves, composite>>
    /\ UNCHANGED <<trade, factory, outputs>>

\* lines 220-231
SetOutputs ==
    /\ pc = "premiums"
    /\ pc' = "done"
    /\ outputs' = Built(trade, composite, premiums)
    /\ UNCHANGED <<trade, factory, err, leaves, composite, premiums>>

Next ==
    \/ CheckPreconditions
    \/ BuildPayoffs
    \/ SetPricingEngines
    \/ Compose
    \/ AddPremiums
    \/ SetOutputs

(***************************************************************************)
(* Input grids.                                                            *)
(***************************************************************************)
Styles == {"European", "American"}
BarrierStyles == {"", "European", "American"}
LongShorts == {"Long", "Short"}
\* The concrete scenario K = 100, B = 120, R = 5 lies on every grid of terms.
GridLevels == (1..MaxGrid) \cup {120}
GridStrikes == (1..MaxGrid) \cup {100}
GridRebates == (-1..MaxRebate) \cup {5}
GridPrices == (0..(MaxGrid + 1)) \cup {99, 100, 101, 119, 120, 121}

Start(trades, factories) ==
    /\ trade \in trades
    /\ factory \in factories
    /\ pc = "start"
    /\ err = ""
    /\ leaves = NoLeaves
    /\ composite = <<>>
    /\ premiums = NoPremiums
    /\ outputs = Unbuilt

\* Trades whose structure passes lines 42-47, over the whole grid of terms,
\* with both builders registered.
TermTrades ==
    Trades({"European"}, {1}, {1}, {"", "European"}, {0}, OptionTypes, BarrierTypes, GridLevels, GridStrikes, {1, 2}, GridRebates, LongShorts, {<<>>})

InitTerms == Start(TermTrades, {BuilderNames})
SpecTerms == InitTerms /\ [][Next]_vars

\* Every combination of structural defects, on a small grid of terms.
StructureTrades ==
    Trades(Styles, 0..MaxExerciseDates, 0..MaxBarrierLevels, BarrierStyles, 0..MaxTradeActions, {"Call"}, {"UpOut", "Other"}, {120}, {100}, {1}, {-1, 0, 5}, {"Long"}, {<<>>})

InitStructure == Start(StructureTrades, SUBSET BuilderNames)
SpecStructure == InitStructure /\ [][Next]_vars

\* Number of structural defects of a trade (lines 43-47).
Defects(t) ==
      (IF t.optionStyle # "European" THEN 1 ELSE 0)
    + (IF Len(t.exerciseDates) # 1 THEN 1 ELSE 0)
    + (IF Len(t.barrierLevels) # 1 THEN 1 ELSE 0)
    + (IF t.barrierStyle \notin {"", "European"} THEN 1 ELSE 0)
    + (IF Len(t.tradeActions) # 0 THEN 1 ELSE 0)

\* The general grid: at most one structural defect, every factory, premiums,
\* both positions, every barrier kind, B below, at and above K.
GeneralTrades ==
    { t \in Trades(Styles, 1..MaxExerciseDates, 1..MaxBarrierLevels, {"", "American"}, 0..MaxTradeActions, OptionTypes, BarrierTypes, {80, 100, 120}, {100}, {2}, {-1, 5}, LongShorts, SeqsUpTo(PremiumEntries, MaxPremiums)) : Defects(t) <= 1 }

Init == Start(GeneralTrades, SUBSET BuilderNames)
Spec == Init /\ [][Next]_vars

(***************************************************************************)
(* Properties.                                                             *)
(***************************************************************************)
\* build holds a composite from the end of lines 167-207 on.
HasComposite == pc \in {"composed", "premiums", "done"}

K == Strike(trade)
B == Level(trade)
R == trade.rebate

\* The (name, multiplier, payoff) triples of a composite, in order, and the
\* part after the first leaf.
Triples(comp) == [i \in 1..Len(comp) |-> <<comp[i].name, comp[i].mult, comp[i].inst.payoff>>]
AfterFirst(comp) == { Triples(comp)[i] : i \in 2..Len(comp) }

\* The three payoff templates of the decision table.
TplVanillaK == [class |-> "PlainVanilla", type |-> trade.callPut, strike |-> K, cash |-> 0]
TplVanillaB == [class |-> "PlainVanilla", type |-> trade.callPut, strike |-> B, cash |-> 0]
TplDigitalGap ==
    [class |-> "CashOrNothing", type |-> trade.callPut, strike |-> B,
     cash |-> IF B > K THEN B - K ELSE K - B]

LongB == { <<"vanillaB", 1, TplVanillaB>>, <<"digital", 1, TplDigitalGap>> }
LongK == { <<"vanillaK", 1, TplVanillaK>> }
Spread == { <<"vanillaK", 1, TplVanillaK>>, <<"vanillaB", -1, TplVanillaB>>,
            <<"digital", -1, TplDigitalGap>> }

\* The decision table of the specification, B == K in the "B <= K" column.
DecisionTable ==
    LET inLike == trade.barrierType \in {"UpIn", "DownOut"}
    IN  CASE trade.callPut = "Call" /\ inLike  -> IF B > K THEN LongB ELSE LongK
          [] trade.callPut = "Call" /\ ~inLike -> IF B > K THEN Spread ELSE {}
          [] trade.callPut = "Put" /\ inLike   -> IF B > K THEN {} ELSE Spread
          [] trade.callPut = "Put" /\ ~inLike  -> IF B > K THEN LongK ELSE LongB

LeafPayoff(p, S) ==
    CASE p.class = "PlainVanilla" /\ p.type = "Call"  -> IF S - p.strike > 0 THEN S - p.strike ELSE 0
      [] p.class = "PlainVanilla" /\ p.type = "Put"   -> IF p.strike - S > 0 THEN p.strike - S ELSE 0
      [] p.class = "CashOrNothing" /\ p.type = "Call" -> IF S > p.strike THEN p.cash ELSE 0
      [] p.class = "CashOrNothing" /\ p.type = "Put"  -> IF S < p.strike THEN p.cash ELSE 0

RECURSIVE CompositePayoff(_, _)
CompositePayoff(comp, S) ==
    IF comp = <<>> THEN 0
    ELSE Head(comp).mult * LeafPayoff(Head(comp).inst.payoff, S) + CompositePayoff(Tail(comp), S)

\* The European barrier option's payoff at expiry: the barrier is hit above B
\* (Up) or below B (Down); `touch` says whether S == B counts as hit.
BarrierHit(kind, S, level, touch) ==
    IF kind \in {"UpIn", "UpOut"} THEN S > level \/ (touch /\ S = level)
    ELSE S < level \/ (touch /\ S = level)
Alive(kind, S, level, touch) ==
    IF kind \in {"UpIn", "DownIn"} THEN BarrierHit(kind, S, level, touch)
    ELSE ~BarrierHit(kind, S, level, touch)
BarrierOptionPayoff(S, touch) ==
    IF Alive(trade.barrierType, S, B, touch)
    THEN (IF trade.callPut = "Call" THEN Max(S - K, 0) ELSE Max(K - S, 0))
    ELSE R

\* C2, as stated: at every price of the grid, S == B included, the composite's
\* terminal payoff is the barrier option's payoff (whichever way S == B counts).
C2_PayoffAtEveryPrice ==
    (pc = "done") =>
        \E touch \in BOOLEAN :
            \A S \in GridPrices : CompositePayoff(composite, S) = BarrierOptionPayoff(S, touch)

\* C2, amended: at every price of the grid other than S == B the composite's
\* terminal payoff is the barrier option's payoff, for every option type,
\* barrier kind and every (K, B, R) with B > K, B < K and B == K.
C2_PayoffOffBarrier ==
    (pc = "done") =>
        \A S \in GridPrices \ {B} : \A touch \in BOOLEAN :
            CompositePayoff(composite, S) = BarrierOptionPayoff(S, touch)

C2_Witness ==
    /\ pc = "done"
    /\ trade.callPut = "Put" /\ trade.barrierType = "DownIn"
    /\ B < K /\ R > 0
    /\ CompositePayoff(composite, B - 1) = K - B + 1
    /\ CompositePayoff(composite, B + 1) = R

IsScenario ==
    /\ trade.callPut = "Call" /\ trade.barrierType = "UpOut"
    /\ K = 100 /\ B = 120 /\ R = 5

\* C3, as stated: Call, UpOut, K = 100, B = 120, R = 5 gives four leaves, the
\* rebate leaf being a Put-type digital at 120 with cash 5.
C3_ScenarioPutRebate ==
    (IsScenario /\ HasComposite) =>
        Triples(composite) =
            << <<"rebateInstrument", 1, [class |-> "CashOrNothing", type |-> "Put", strike |-> 120, cash |-> 5]>>,
               <<"vanillaK", 1, [class |-> "PlainVanilla", type |-> "Call", strike |-> 100, cash |-> 0]>>,
               <<"vanillaB", -1, [class |-> "PlainVanilla", type |-> "Call", strike |-> 120, cash |-> 0]>>,
               <<"digital", -1, [class |-> "CashOrNothing", type |-> "Call", strike |-> 120, cash |-> 20]>> >>

\* C3, amended: Call, UpOut, K = 100, B = 120, R = 5 gives exactly four leaves:
\* the rebate leaf, a Call-type digital at 120 with cash 5 and weight +1;
\* Vanilla(Call, 100) with weight +1; Vanilla(Call, 120) with weight -1;
\* CashOrNothing(Call, 120, cash 20) with weight -1.
C3_ScenarioCallRebate ==
    (IsScenario /\ HasComposite) =>
        Triples(composite) =
            << <<"rebateInstrument", 1, [class |-> "CashOrNothing", type |-> "Call", strike |-> 120, cash |-> 5]>>,
               <<"vanillaK", 1, [class |-> "PlainVanilla", type |-> "Call", strike |-> 100, cash |-> 0]>>,
               <<"vanillaB", -1, [class |-> "PlainVanilla", type |-> "Call", strike |-> 120, cash |-> 0]>>,
               <<"digital", -1, [class |-> "CashOrNothing", type |-> "Call", strike |-> 120, cash |-> 20]>> >>

C3_Witness == IsScenario /\ pc = "done" /\ Len(composite) = 4

\* C4: in every composite build produces for one of the four barrier kinds the
\* rebate leaf is present exactly once, first, with multiplier +1, and is a
\* cash-or-nothing digital at B with cash R, Put-type for UpIn / DownOut and
\* Call-type for UpOut / DownIn; the composite holds between 1 and 4 leaves.
C4_RebateLeaf ==
    (HasComposite /\ trade.barrierType \in KnownBarrierTypes) =>
        /\ Len(composite) \in 1..4
        /\ Cardinality({ i \in 1..Len(composite) : composite[i].name = "rebateInstrument" }) = 1
        /\ composite[1].name = "rebateInstrument"
        /\ composite[1].mult = 1
        /\ composite[1].inst.payoff =
              [class |-> "CashOrNothing",
               type |-> IF trade.barrierType \in {"UpIn", "DownOut"} THEN "Put" ELSE "Call",
               strike |-> B, cash |-> R]

\* A branch of the table without leaves: the composite is the rebate leaf alone.
C4_Witness ==
    /\ pc = "done"
    /\ trade.callPut = "Call" /\ trade.barrierType = "UpOut" /\ B <= K
    /\ Len(composite) = 1
    /\ composite[1].name = "rebateInstrument"

\* The composite build makes of trade t when nothing fails.
CompositeOf(t) == Composed(EnginesSet(NewLeaves(t), t), t)

OppositeKind(kind) ==
    CASE kind = "UpIn" -> "UpOut" [] kind = "UpOut" -> "UpIn"
      [] kind = "DownIn" -> "DownOut" [] kind = "DownOut" -> "DownIn"

RECURSIVE NetMultiplier(_, _)
NetMultiplier(comp, name) ==
    IF comp = <<>> THEN 0
    ELSE (IF Head(comp).name = name THEN Head(comp).mult ELSE 0) + NetMultiplier(Tail(comp), name)

Mirror(t) == [t EXCEPT !.longShort = IF @ = "Long" THEN "Short" ELSE "Long"]

\* The instrument build hands to the trade when nothing fails.
InstrumentOf(t) ==
    Built(t, CompositeOf(t), addPremiums(Mult(t), t.premiumData, PremiumSign(t))).instrument

RECURSIVE WeightedSum(_, _)
WeightedSum(ws, xs) ==
    IF ws = <<>> THEN 0 ELSE Head(ws) * Head(xs) + WeightedSum(Tail(ws), Tail(xs))

\* Value of the wrapped instrument at terminal price S: the composite scaled by
\* the overall multiplier plus the weighted premium payments.
TradeValue(inst, S) ==
    inst.mult * CompositePayoff(inst.qlInstrument, S)
        + WeightedSum(inst.additionalMultipliers, inst.additionalInstruments)

\* C6: two trades that differ only in the long/short indicator get the same
\* composite; the overall multiplier is boughtAmount for long and -boughtAmount
\* for short; the sign passed to the premiums is the opposite of the position
\* sign; the short trade's value is the negation of the long trade's.
C6_ShortIsMinusLong ==
    (pc = "done") =>
        LET mine   == outputs.instrument
            theirs == InstrumentOf(Mirror(trade))
            sign   == IF trade.longShort = "Long" THEN 1 ELSE -1
        IN  /\ mine.qlInstrument = theirs.qlInstrument
            /\ mine.mult = sign * trade.boughtAmount
            /\ theirs.mult = -mine.mult
            /\ premiums.sign = -sign
            /\ \A S \in GridPrices : TradeValue(mine, S) = -TradeValue(theirs, S)

C6_Witness ==
    /\ pc = "done"
    /\ trade.longShort = "Short"
    /\ Len(trade.premiumData) > 0
    /\ outputs.instrument.mult = -trade.boughtAmount
    /\ \E S \in GridPrices : TradeValue(outputs.instrument, S) # 0

\* The error kinds of the messages build raises.
ErrorKind(msg) ==
    CASE msg \in {"Option Style unknown", "Invalid number of excercise dates",
                  "Invalid number of barrier levels", "Only european barrier style suppported",
                  "TradeActions not supported for FxEuropeanBarrierOption"}
                                                     -> "UnsupportedStructure"
      [] msg = "Rebate must be non-negative"         -> "MalformedConfiguration"
      [] msg \in {"No builder found for FxOption", "No builder found for FxDigitalOption"}
                                                     -> "NoEngineFound"
      [] msg = "Unknown Barrier Type"                -> "UnknownBarrierType"
      [] msg = ""                                    -> "none"
      [] OTHER                                       -> "other"

Unsupported(t) ==
    \/ t.optionStyle # "European"
    \/ Len(t.exerciseDates) # 1
    \/ Len(t.barrierLevels) # 1
    \/ t.barrierStyle \notin {"", "European"}
    \/ Len(t.tradeActions) # 0

C8_NoPartialResults == (pc # "done") => (outputs = Unbuilt)

\* The latest failure: the preconditions, the builders and the barrier kind
\* have passed and adding the premiums fails.
C8_Witness ==
    /\ pc = "failed"
    /\ err = "addPremiums failed"
    /\ outputs = Unbuilt

\* value() of a composite fails with EngineNotAttached for the leaves named
\* here: those without a pricing engine.
EngineNotAttached(comp) == { comp[i].name : i \in { j \in 1..Len(comp) : comp[j].inst.nSet = 0 } }

\* C9: every leaf of the composite has had a pricing model attached exactly
\* once, before it was added: the vanilla model keyed by (bought, sold, expiry)
\* for a vanilla payoff, the digital model keyed by (bought, sold) for a digital
\* payoff.  No leaf is ever attached twice; before the binding no leaf has a
\* model; after a successful build value() finds every leaf with its model.
C9_EnginesAttachedOnce ==
    /\ \A i \in 1..Len(composite) :
          /\ composite[i].inst.nSet = 1
          /\ composite[i].inst = leaves[composite[i].name]
          /\ composite[i].inst.payoff.class = "PlainVanilla" =>
                composite[i].inst.engine =
                    [builder |-> "FxOption", ccy1 |-> trade.boughtCurrency,
                     ccy2 |-> trade.soldCurrency, dated |-> TRUE,
                     expiry |-> trade.exerciseDates[1]]
          /\ composite[i].inst.payoff.class = "CashOrNothing" =>
                composite[i].inst.engine =
                    [builder |-> "FxDigitalOption", ccy1 |-> trade.boughtCurrency,
                     ccy2 |-> trade.soldCurrency, dated |-> FALSE, expiry |-> 0]
    /\ \A n \in LeafNames : leaves[n].nSet <= 1
    /\ (pc \in {"start", "checked", "payoffs"}) =>
          /\ composite = <<>>
          /\ \A n \in LeafNames : leaves[n].nSet = 0 /\ leaves[n].engine.builder = "none"
    /\ (pc = "done") =>
          /\ outputs.instrument.qlInstrument = composite
          /\ EngineNotAttached(outputs.instrument.qlInstrument) = {}

C9_Witness ==
    /\ pc = "done"
    /\ Len(outputs.instrument.qlInstrument) = 4
    /\ \A i \in 1..4 : outputs.instrument.qlInstrument[i].inst.nSet = 1

\* The trade passes lines 42-53.
PassesChecks(t) == ~Unsupported(t) /\ t.rebate >= 0

PastEngineAttachment == pc \in {"engines", "composed", "premiums", "done", "failed"}

\* The classes the leaves of the selected composite need: the digital class for
\* the rebate leaf (and the gap digital), the vanilla class when the selected
\* branch of the table holds a vanilla leaf.
RequiredClasses ==
    {"FxDigitalOption"}
        \cup (IF \E x \in DecisionTable : x[1] \in {"vanillaK", "vanillaB"}
              THEN {"FxOption"} ELSE {})

\* C11, as stated: engine attachment fails with NoEngineFound exactly when the
\* factory lacks a builder for a class required by a leaf of the composite
\* being built.
C11_OnlyRequiredClasses ==
    (PassesChecks(trade) /\ trade.barrierType \in KnownBarrierTypes /\ PastEngineAttachment) =>
        ((ErrorKind(err) = "NoEngineFound") <=> ~(RequiredClasses \subseteq factory))

\* C11, amended: engine attachment fails with NoEngineFound exactly when the
\* factory lacks the builder of the vanilla-option class or of the
\* digital-option class; both are required by every trade, whatever leaves the
\* selected branch holds; with both registered it does not fail, and a trade
\* rejected before the attachment never fails with NoEngineFound.
C11_BothBuildersRequired ==
    /\ (PassesChecks(trade) /\ PastEngineAttachment) =>
          /\ (ErrorKind(err) = "NoEngineFound") <=> ~({"FxOption", "FxDigitalOption"} \subseteq factory)
          /\ ("FxOption" \notin factory) => (pc = "failed" /\ err = "No builder found for FxOption")
          /\ ("FxOption" \in factory /\ "FxDigitalOption" \notin factory) =>
                (pc = "failed" /\ err = "No builder found for FxDigitalOption")
    /\ (~PassesChecks(trade) \/ ~PastEngineAttachment) => ErrorKind(err) # "NoEngineFound"

\* A branch without a vanilla leaf, the digital builder registered, the vanilla
\* builder missing: the attachment fails all the same.
C11_Witness ==
    /\ pc = "failed"
    /\ trade.callPut = "Call" /\ trade.barrierType = "UpOut" /\ B <= K
    /\ factory = {"FxDigitalOption"}
    /\ RequiredClasses \subseteq factory
    /\ err = "No builder found for FxOption"
====
